---- MODULE Spec2Model ----
(***************************************************************************)
(* A model of migrate.py: the migration of external integrations, health   *)
(* checks and scenarios from source teams into one destination team.       *)
(*                                                                         *)
(* JSON values are tagged records: [k |-> "S", v |-> string],              *)
(* Null, [k |-> "B"] (bool), [k |-> "L", v |-> sequence of values] and     *)
(* [k |-> "D", v |-> function from key strings to values].                 *)
(***************************************************************************)
EXTENDS Integers, Sequences, FiniteSets, TLC

VARIABLES
    teams,      \* args.source_team_ids: the source teams, in the order given
    flags,      \* [hc, sc]: args.delete_health_checks, args.delete_scenarios
    src,        \* the source teams' data: team -> [integs, checks, scenarios]
    dst,        \* the destination team: [integs, checks, scenarios, nhc, nsc]
    pc,         \* the position of main(); "done" at line 312, "aborted" after an exception
    team_no,    \* index into teams of the source team being processed
    item_no,    \* index of the next item of the loop being run
    loc,        \* locals of the function being run
    overall_hc_mapping,  \* main(): the run-wide health-check mapping
    log,        \* every HTTP request issued so far, in order
    faults,     \* number of failed or missing responses so far
    call        \* a single call of a pure function: its arguments and result

vars == <<teams, flags, src, dst, pc, team_no, item_no, loc, overall_hc_mapping, log, faults, call>>

-----------------------------------------------------------------------------
(* Bounds of the model. *)

MaxTeams == 2       \* length of source_team_ids
MaxFaults == 1      \* failed responses in one run
MaxListLen == 3     \* length of a statusCheckId list in the rewriter's inputs

-----------------------------------------------------------------------------
(* JSON values and the dict operations the code uses. *)

Str(s) == [k |-> "S", v |-> s]
Null == [k |-> "N", v |-> "null"]
List(q) == [k |-> "L", v |-> q]
Dict(f) == [k |-> "D", v |-> f]
Bool(b) == [k |-> "B", v |-> IF b THEN "true" ELSE "false"]
Empty == Dict(<<>>)

IsDict(x) == x.k = "D"
IsList(x) == x.k = "L"

\* key in d
Has(d, key) == key \in DOMAIN d.v
\* d.get(key, dflt)
Get(d, key, dflt) == IF key \in DOMAIN d.v THEN d.v[key] ELSE dflt
\* d.pop(key, None)
Pop(d, key) == Dict([x \in (DOMAIN d.v) \ {key} |-> d.v[x]])
\* d[key] = val
Put(d, key, val) == Dict([x \in (DOMAIN d.v) \cup {key} |-> IF x = key THEN val ELSE d.v[x]])
\* Python truthiness of a JSON value
Truthy(x) ==
    CASE x.k = "N" -> FALSE
      [] x.k = "S" -> x.v # ""
      [] x.k = "B" -> x.v = "true"
      [] x.k = "L" -> Len(x.v) > 0
      [] x.k = "D" -> DOMAIN x.v # {}

RECURSIVE PopAll(_, _)
\* for field in fields: d.pop(field, None)
PopAll(d, fields) ==
    IF fields = <<>> THEN d ELSE PopAll(Pop(d, Head(fields)), Tail(fields))

-----------------------------------------------------------------------------
(* recursive_update_status_check *)

\* item in mapping, for a JSON scalar item and a mapping keyed by identifiers
InMapping(item, mapping) == item.k = "S" /\ item.v \in DOMAIN mapping

RECURSIVE NewListLoop(_, _, _, _)
NewListLoop(val, mapping, n, new_list) ==
    IF n > Len(val) THEN new_list
    ELSE IF InMapping(val[n], mapping)
         THEN NewListLoop(val, mapping, n + 1, Append(new_list, Str(mapping[val[n].v])))
         ELSE NewListLoop(val, mapping, n + 1, new_list)

NewList_KeepsUnmapped(val, mapping) ==
    [n \in 1..Len(val) |-> IF InMapping(val[n], mapping) THEN Str(mapping[val[n].v]) ELSE val[n]]

\* the list branch: the mapped elements, in order
NewList(val, mapping) == NewListLoop(val, mapping, 1, <<>>)

RECURSIVE recursive_update_status_check(_, _)

\* the keys that obj.pop(key) leaves in a dict
KeptKeys(obj, mapping) ==
    {key \in DOMAIN obj.v :
        key = "statusCheckId" =>
            IF IsList(obj.v[key])
            THEN NewList(obj.v[key].v, mapping) # <<>>
            ELSE InMapping(obj.v[key], mapping)}

recursive_update_status_check_TopOnly(obj, mapping) ==
    IF IsDict(obj)
    THEN Dict([key \in KeptKeys(obj, mapping) |->
            IF key = "statusCheckId"
            THEN IF IsList(obj.v[key])
                 THEN List(NewList(obj.v[key].v, mapping))
                 ELSE Str(mapping[obj.v[key].v])
            ELSE IF IsDict(obj.v[key])
                 THEN recursive_update_status_check(obj.v[key], mapping)
                 ELSE obj.v[key]])
    ELSE obj

recursive_update_status_check_PrunesEmpty(obj, mapping) ==
    IF IsDict(obj)
    THEN Dict([key \in KeptKeys(obj, mapping) |->
            IF key = "statusCheckId"
            THEN IF IsList(obj.v[key])
                 THEN List(NewList(obj.v[key].v, mapping))
                 ELSE Str(mapping[obj.v[key].v])
            ELSE recursive_update_status_check(obj.v[key], mapping)])
    ELSE IF IsList(obj)
    THEN List(SelectSeq([n \in 1..Len(obj.v) |-> recursive_update_status_check(obj.v[n], mapping)],
                        LAMBDA x : x # Empty))
    ELSE obj

\* lines 194-221: the rewritten structure
recursive_update_status_check(obj, mapping) ==
    IF IsDict(obj)
    THEN Dict([key \in KeptKeys(obj, mapping) |->
            IF key = "statusCheckId"
            THEN IF IsList(obj.v[key])
                 THEN List(NewList(obj.v[key].v, mapping))
                 ELSE Str(mapping[obj.v[key].v])
            ELSE recursive_update_status_check(obj.v[key], mapping)])
    ELSE IF IsList(obj)
    THEN List([n \in 1..Len(obj.v) |-> recursive_update_status_check(obj.v[n], mapping)])
    ELSE obj

-----------------------------------------------------------------------------
(* Identifiers. *)

SrcTeams == {"s1", "s2"}
DestTeam == "T"
SrcIds == {"hc1", "hc2", "hc3"}
\* identifiers the destination mints for the health checks it creates
Minted == <<"d1", "d2", "d3", "d4", "d5", "d6", "d7", "d8">>

-----------------------------------------------------------------------------
(* Inputs of a single call of recursive_update_status_check. *)

RECURSIVE SeqsUpTo(_, _)
SeqsUpTo(S, n) ==
    IF n = 0 THEN {<<>>}
    ELSE LET shorter == SeqsUpTo(S, n - 1)
         IN shorter \cup {Append(q, x) : q \in {s \in shorter : Len(s) = n - 1}, x \in S}

Absent == [k |-> "absent", v |-> "absent"]
\* the dict f with key -> val added unless val is Absent
Opt(key, val) == IF val = Absent THEN <<>> ELSE key :> val

ScalarRefs == {Str(x) : x \in SrcIds} \cup {Null}
ListRefs == {List([n \in 1..Len(q) |-> Str(q[n])]) : q \in SeqsUpTo(SrcIds, MaxListLen)}
RefVals == ScalarRefs \cup ListRefs

TopTree(r) == Dict(("name" :> Str("n")) @@ Opt("statusCheckId", r))
NestedTree(r1, r2) ==
    Dict(("name" :> Str("n")) @@
         ("graph" :> Dict("nodes" :> List(<<
              Dict(("type" :> Str("x")) @@ Opt("statusCheckId", r1)),
              Str("leaf"),
              List(<<Dict(Opt("statusCheckId", r2))>>) >>))))

Trees ==
    {TopTree(r) : r \in RefVals \cup {Absent}}
    \cup {NestedTree(r1, r2) : r1 \in RefVals \cup {Absent}, r2 \in ScalarRefs \cup {Absent}}

Mappings == UNION {[S -> {"d1", "d2"}] : S \in SUBSET SrcIds}

-----------------------------------------------------------------------------
(* A single call of recursive_update_status_check on bounded inputs. *)

Idle == [fn |-> "none"]

MainIdle ==
    /\ teams = <<>> /\ flags = [hc |-> FALSE, sc |-> FALSE]
    /\ src = <<>> /\ dst = <<>> /\ pc = "idle" /\ team_no = 0 /\ item_no = 0
    /\ loc = <<>> /\ overall_hc_mapping = <<>> /\ log = <<>> /\ faults = 0

MainUnchanged ==
    UNCHANGED <<teams, flags, src, dst, pc, team_no, item_no, loc, overall_hc_mapping, log, faults>>

InitRewrite ==
    /\ MainIdle
    /\ call \in {[fn |-> "recursive_update_status_check", obj |-> t, mapping |-> m,
                   ret |-> Null, returned |-> FALSE] : t \in Trees, m \in Mappings}

Rewrite ==
    /\ call.fn = "recursive_update_status_check" /\ ~call.returned
    /\ call' = [call EXCEPT !.ret = recursive_update_status_check(call.obj, call.mapping),
                            !.returned = TRUE]
    /\ MainUnchanged

SpecRewrite == InitRewrite /\ [][Rewrite]_vars

-----------------------------------------------------------------------------
(* The data of the source teams and of the destination before the run. *)

Integ(name, type, domain) ==
    Dict(("name" :> Str(name)) @@ Opt("type", type) @@ Opt("domain", domain)
         @@ ("url" :> Str("http://" \o name)))

W1 ==
    [src |->
        [s1 |->
            [integs |-> <<Integ("Datadog1", Str("DATADOG"), Absent)>>,
             checks |-> <<
                Dict([identifier |-> Str("hc1"), name |-> Str("c1"), teamId |-> Str("s1"),
                      createdBy |-> Str("u"),
                      endpointConfiguration |->
                          Dict([url |-> Str("http://c1"), headers |-> Dict([A |-> Str("1")])]),
                      teamExternalIntegration |->
                          Dict([name |-> Str("Datadog1"), type |-> Str("DATADOG"),
                                identifier |-> Str("i1")])])>>,
             scenarios |-> <<
                Dict([name |-> Str("sc1"), teamId |-> Str("s1"), identifier |-> Str("g1"),
                      statusCheckId |-> Str("hc1")])>>],
         s2 |->
            [integs |-> <<>>,
             checks |-> <<>>,
             scenarios |-> <<
                Dict([name |-> Str("sc2"), teamId |-> Str("s2"),
                      graph |-> Dict([nodes |-> List(<<
                          Dict([statusCheckId |-> List(<<Str("hc1"), Str("hc2")>>)])>>)])])>>]],
     dst |-> [integs |-> <<>>, checks |-> <<>>, scenarios |-> <<>>, nhc |-> 0, nsc |-> 0]]

W2 ==
    [src |->
        [s1 |->
            [integs |-> <<Null,
                          Integ("Custom1", Str("custom"), Str("dom")),
                          Integ("Datadog1", Str("DATADOG"), Absent)>>,
             checks |-> <<
                Dict([identifier |-> Str("hc1"), name |-> Str("c1"), teamId |-> Str("s1"),
                      thirdPartyPresets |-> Str("p"),
                      endpointConfiguration |-> Dict([url |-> Str("http://c1")]),
                      rawEndpointConfiguration |-> Dict([headers |-> Dict([X |-> Str("1")])]),
                      teamExternalIntegration |-> Dict([name |-> Str("Custom1")])]),
                Dict([identifier |-> Str("hc2"), name |-> Str("c2"), teamId |-> Str("s1"),
                      endpointConfiguration |->
                          Dict([url |-> Str("http://c2"), headers |-> Dict([A |-> Str("1")])]),
                      rawEndpointConfiguration |-> Dict([headers |-> Dict([X |-> Str("1")])]),
                      teamExternalIntegration |-> Dict([name |-> Str("Missing")])])>>,
             scenarios |-> <<
                Dict([name |-> Str("sc1"), teamId |-> Str("s1"),
                      sharedScenarioGuid |-> Str("sh"),
                      graph |-> Dict([nodes |-> List(<<
                          Dict([type |-> Str("x"), teamId |-> Str("s1"),
                                statusCheckId |->
                                    List(<<Str("hc1"), Str("hc2"), Str("hc3")>>)]),
                          Dict([statusCheckId |-> Str("hc2")])>>)])])>>],
         s2 |->
            [integs |-> <<Integ("Pager1", Str("PAGERDUTY"), Absent),
                          Integ("Pager1", Str("PAGERDUTY"), Absent),
                          Integ("Plain1", Absent, Absent)>>,
             checks |-> <<
                Dict([identifier |-> Str("hc3"), name |-> Str("c3"), teamId |-> Str("s2"),
                      endpointConfiguration |-> Dict([url |-> Str("http://c3")])])>>,
             scenarios |-> <<
                Dict([name |-> Str("sc2"), teamId |-> Str("s2"),
                      statusCheckId |-> Str("hc1")]),
                Dict([name |-> Str("sc3"), teamId |-> Str("s2"),
                      statusCheckId |-> List(<<Str("hc3"), Str("hc1")>>)])>>]],
     dst |->
        [integs |-> <<Dict([name |-> Str("Datadog1"), type |-> Str("DATADOG")])>>,
         checks |-> <<Dict([identifier |-> Str("e1"), name |-> Str("old")])>>,
         scenarios |-> <<Dict([guid |-> Str("x1"), name |-> Str("old")])>>,
         nhc |-> 0, nsc |-> 0]]

Worlds == {W1, W2}

\* identifiers the destination mints for the scenarios it creates
MintedGuids == <<"g91", "g92", "g93", "g94", "g95", "g96", "g97", "g98">>

-----------------------------------------------------------------------------
(* HTTP: every request is logged with the status of its response. *)

\* the statuses a response may take: a failure while the budget lasts
Statuses == IF faults < MaxFaults THEN {200, 500} ELSE {200}
Failed(status) == IF status = 200 THEN 0 ELSE 1

Req(m, who, team, res, id, params, body, status, item) ==
    [m |-> m, who |-> who, team |-> team, res |-> res, id |-> id, params |-> params,
     body |-> body, status |-> status, returned |-> "", run |-> team_no, item |-> item]

Get_(who, team, res, status) == Req("GET", who, team, res, "", Empty, Null, status, 0)

\* requests.get/post/put/delete raises (no response, logged with status 0): nothing
\* in main() catches the exception and the run ends
Raises(reqs) ==
    /\ faults < MaxFaults
    /\ log' = log \o reqs
    /\ faults' = faults + 1
    /\ pc' = "aborted"

\* lines 16-28: the list of the response, [] on an error
get_external_integrations(list, status) == IF status = 200 THEN list ELSE <<>>

-----------------------------------------------------------------------------
(* main(): the run *)

RECURSIVE TeamSeqs(_)
TeamSeqs(n) ==
    IF n = 0 THEN {<<>>}
    ELSE LET shorter == TeamSeqs(n - 1)
         IN shorter \cup {Append(q, t) : q \in {s \in shorter : Len(s) = n - 1}, t \in SrcTeams}

NoLocals ==
    [targets |-> <<>>, src_integrations |-> <<>>, dst_integrations |-> <<>>, dst_names |-> {},
     dest_integrations |-> <<>>,
     checks |-> <<>>, id_mapping |-> <<>>, scenarios |-> <<>>]

Init ==
    /\ teams \in TeamSeqs(MaxTeams) \ {<<>>}
    /\ flags \in [hc : BOOLEAN, sc : BOOLEAN]
    /\ \E w \in Worlds : src = w.src /\ dst = w.dst
    /\ pc = "start"
    /\ team_no = 0
    /\ item_no = 0
    /\ loc = NoLocals
    /\ overall_hc_mapping = <<>>
    /\ log = <<>>
    /\ faults = 0
    /\ call = Idle

\* where main() goes after the deletion of health checks (lines 295-300)
AfterDeleteHealthChecks == IF flags.sc THEN "delete_scenarios" ELSE "copy_external_integrations"

\* lines 292-296, 298-300: the flags decide where the run starts
Start ==
    /\ pc = "start"
    /\ pc' = IF flags.hc THEN "delete_health_checks" ELSE AfterDeleteHealthChecks
    /\ team_no' = 1
    /\ UNCHANGED <<teams, flags, src, dst, item_no, loc, overall_hc_mapping, log, faults, call>>

\* lines 30-40: list the destination's health checks
delete_existing_health_checks ==
    /\ pc = "delete_health_checks"
    /\ \/ \E status \in Statuses :
            /\ log' = Append(log, [Get_("dst", DestTeam, "checks", status) EXCEPT !.run = 0])
            /\ faults' = faults + Failed(status)
            /\ IF status # 200 \/ dst.checks = <<>>
               THEN /\ pc' = AfterDeleteHealthChecks
                    /\ UNCHANGED <<loc, item_no>>
               ELSE /\ pc' = "delete_health_check"
                    /\ loc' = [loc EXCEPT !.targets = dst.checks]
                    /\ item_no' = 1
       \/ /\ Raises(<<[Get_("dst", DestTeam, "checks", 0) EXCEPT !.run = 0]>>)
          /\ UNCHANGED <<loc, item_no>>
    /\ UNCHANGED <<teams, flags, src, dst, team_no, overall_hc_mapping, call>>

\* lines 41-51: delete one health check of the destination
delete_existing_health_checks_item ==
    /\ pc = "delete_health_check"
    /\ LET check == loc.targets[item_no]
           identifier == Get(check, "identifier", Null)
           next == /\ IF item_no = Len(loc.targets)
                      THEN pc' = AfterDeleteHealthChecks /\ item_no' = 0
                      ELSE pc' = pc /\ item_no' = item_no + 1
       IN IF ~Truthy(identifier)
          THEN next /\ UNCHANGED <<log, faults, dst>>
          ELSE \/ \E status \in Statuses :
                    /\ log' = Append(log, [Req("DELETE", "dst", DestTeam, "checks", identifier.v,
                                               Empty, Null, status, item_no) EXCEPT !.run = 0])
                    /\ faults' = faults + Failed(status)
                    /\ dst' = IF status \in {200, 204}
                              THEN [dst EXCEPT !.checks =
                                      SelectSeq(dst.checks,
                                                LAMBDA c : Get(c, "identifier", Null) # identifier)]
                              ELSE dst
                    /\ next
               \/ /\ Raises(<<[Req("DELETE", "dst", DestTeam, "checks", identifier.v,
                                    Empty, Null, 0, item_no) EXCEPT !.run = 0]>>)
                  /\ UNCHANGED <<dst, item_no>>
    /\ UNCHANGED <<teams, flags, src, team_no, loc, overall_hc_mapping, call>>

\* lines 53-63: list the destination's scenarios
delete_existing_scenarios ==
    /\ pc = "delete_scenarios"
    /\ \/ \E status \in Statuses :
            /\ log' = Append(log, [Get_("dst", DestTeam, "scenarios", status) EXCEPT !.run = 0])
            /\ faults' = faults + Failed(status)
            /\ IF status # 200 \/ dst.scenarios = <<>>
               THEN /\ pc' = "copy_external_integrations"
                    /\ UNCHANGED <<loc, item_no>>
               ELSE /\ pc' = "delete_scenario"
                    /\ loc' = [loc EXCEPT !.targets = dst.scenarios]
                    /\ item_no' = 1
       \/ /\ Raises(<<[Get_("dst", DestTeam, "scenarios", 0) EXCEPT !.run = 0]>>)
          /\ UNCHANGED <<loc, item_no>>
    /\ UNCHANGED <<teams, flags, src, dst, team_no, overall_hc_mapping, call>>

\* lines 64-74: delete one scenario of the destination
delete_existing_scenarios_item ==
    /\ pc = "delete_scenario"
    /\ LET scenario == loc.targets[item_no]
           scenario_id == IF Truthy(Get(scenario, "guid", Null))
                          THEN Get(scenario, "guid", Null)
                          ELSE Get(scenario, "identifier", Null)
           next == /\ IF item_no = Len(loc.targets)
                      THEN pc' = "copy_external_integrations" /\ item_no' = 0
                      ELSE pc' = pc /\ item_no' = item_no + 1
       IN IF ~Truthy(scenario_id)
          THEN next /\ UNCHANGED <<log, faults, dst>>
          ELSE \/ \E status \in Statuses :
                    /\ log' = Append(log, [Req("DELETE", "dst", DestTeam, "scenarios", scenario_id.v,
                                               Empty, Null, status, item_no) EXCEPT !.run = 0])
                    /\ faults' = faults + Failed(status)
                    /\ dst' = IF status \in {200, 204}
                              THEN [dst EXCEPT !.scenarios =
                                      SelectSeq(dst.scenarios, LAMBDA c : c # scenario)]
                              ELSE dst
                    /\ next
               \/ /\ Raises(<<[Req("DELETE", "dst", DestTeam, "scenarios", scenario_id.v,
                                    Empty, Null, 0, item_no) EXCEPT !.run = 0]>>)
                  /\ UNCHANGED <<dst, item_no>>
    /\ UNCHANGED <<teams, flags, src, team_no, loc, overall_hc_mapping, call>>

-----------------------------------------------------------------------------
(* copy_external_integrations *)

\* str.upper(), on the type names in use
Upper(t) ==
    CASE t = "custom" -> "CUSTOM"
      [] t = "datadog" -> "DATADOG"
      [] t = "pagerduty" -> "PAGERDUTY"
      [] OTHER -> t

\* line 81: the names of the destination's integrations
DstNames(dst_integrations) ==
    {Get(dst_integrations[n], "name", Null) :
        n \in {j \in 1..Len(dst_integrations) : Truthy(dst_integrations[j])}}

\* lines 92-96: the type of the source integration, uppercased, CUSTOM by default
SourceType(integ) ==
    LET source_type == Get(integ, "type", Str("CUSTOM"))
    IN IF Truthy(source_type) THEN Upper(source_type.v) ELSE "CUSTOM"

QParams_ToSourceTeam(integ, dest_team_id) ==
    Dict(("teamId" :> Str(teams[team_no]))
         @@ (IF SourceType(integ) = "CUSTOM"
             THEN "observabilityToolType" :> Str("CUSTOM")
             ELSE "type" :> Str(SourceType(integ)))
         @@ (IF Get(integ, "domain", Null) # Null
             THEN "domain" :> Get(integ, "domain", Null)
             ELSE <<>>))

\* lines 91-102: the query parameters of the creation request
QParams(integ, dest_team_id) ==
    Dict(("teamId" :> Str(dest_team_id))
         @@ (IF SourceType(integ) = "CUSTOM"
             THEN "observabilityToolType" :> Str("CUSTOM")
             ELSE "type" :> Str(SourceType(integ)))
         @@ (IF Get(integ, "domain", Null) # Null
             THEN "domain" :> Get(integ, "domain", Null)
             ELSE <<>>))

\* lines 104-111: the body of the creation request
IntegBody(integ) ==
    Dict([name |-> Get(integ, "name", Null),
          url |-> Get(integ, "url", Null),
          headers |-> Get(integ, "headers", Empty),
          integrationSpecificValues |-> Get(integ, "integrationSpecificValues", Empty),
          lastAuthenticationStatus |-> Get(integ, "lastAuthenticationStatus", Str("AUTHENTICATED")),
          privateNetwork |-> Get(integ, "privateNetwork", Bool(FALSE))])

\* the integration the destination lists after a creation request succeeded
Created(qparams, body) ==
    Dict(("name" :> Get(body, "name", Null))
         @@ ("type" :> Get(qparams, "type", Get(qparams, "observabilityToolType", Null)))
         @@ (IF Has(qparams, "domain") THEN "domain" :> qparams.v["domain"] ELSE <<>>))

\* lines 76-81: list the integrations of the source and of the destination
copy_external_integrations ==
    /\ pc = "copy_external_integrations"
    /\ \/ \E s1 \in Statuses, s2 \in Statuses :
            /\ faults + Failed(s1) + Failed(s2) <= MaxFaults
            /\ faults' = faults + Failed(s1) + Failed(s2)
            /\ log' = log \o <<Get_("src", teams[team_no], "integrations", s1),
                               Get_("dst", DestTeam, "integrations", s2)>>
            /\ LET src_integrations == get_external_integrations(src[teams[team_no]].integs, s1)
                   dst_integrations == get_external_integrations(dst.integs, s2)
               IN /\ loc' = [NoLocals EXCEPT !.src_integrations = src_integrations,
                                             !.dst_integrations = dst_integrations,
                                             !.dst_names = DstNames(dst_integrations)]
                  /\ IF src_integrations = <<>>
                     THEN pc' = "copy_external_integrations_return" /\ item_no' = 0
                     ELSE pc' = "copy_external_integration" /\ item_no' = 1
       \/ /\ Raises(<<Get_("src", teams[team_no], "integrations", 0)>>)
          /\ UNCHANGED <<loc, item_no>>
       \/ /\ Raises(<<Get_("src", teams[team_no], "integrations", 200),
                      Get_("dst", DestTeam, "integrations", 0)>>)
          /\ UNCHANGED <<loc, item_no>>
    /\ UNCHANGED <<teams, flags, src, dst, team_no, overall_hc_mapping, call>>

\* lines 83-117: one source integration
copy_external_integrations_item ==
    /\ pc = "copy_external_integration"
    /\ LET integ == loc.src_integrations[item_no]
           qparams == QParams(integ, DestTeam)
           body == IntegBody(integ)
           next == /\ IF item_no = Len(loc.src_integrations)
                      THEN pc' = "copy_external_integrations_return" /\ item_no' = 0
                      ELSE pc' = pc /\ item_no' = item_no + 1
       IN IF integ = Null \/ Get(integ, "name", Null) \in loc.dst_names
          THEN next /\ UNCHANGED <<log, faults, dst>>
          ELSE \/ \E status \in Statuses :
                    /\ log' = Append(log, Req("POST", "dst", qparams.v["teamId"].v, "integrations",
                                              "", qparams, body, status, item_no))
                    /\ faults' = faults + Failed(status)
                    /\ dst' = IF status \in {200, 201}
                              THEN [dst EXCEPT !.integs = Append(dst.integs, Created(qparams, body))]
                              ELSE dst
                    /\ next
               \/ /\ Raises(<<Req("POST", "dst", qparams.v["teamId"].v, "integrations",
                                   "", qparams, body, 0, item_no)>>)
                  /\ UNCHANGED <<dst, item_no>>
    /\ UNCHANGED <<teams, flags, src, team_no, loc, overall_hc_mapping, call>>

copy_external_integrations_return_Stale ==
    /\ pc = "copy_external_integrations_return"
    /\ loc' = [loc EXCEPT !.dest_integrations = loc.dst_integrations]
    /\ pc' = "copy_health_checks"
    /\ UNCHANGED <<teams, flags, src, dst, team_no, item_no, overall_hc_mapping, call, log, faults>>

\* lines 118-119, 302-306: list the destination's integrations again and return them
copy_external_integrations_return ==
    /\ pc = "copy_external_integrations_return"
    /\ \/ \E status \in Statuses :
            /\ log' = Append(log, Get_("dst", DestTeam, "integrations", status))
            /\ faults' = faults + Failed(status)
            /\ loc' = [loc EXCEPT !.dest_integrations = get_external_integrations(dst.integs, status)]
            /\ pc' = "copy_health_checks"
       \/ /\ Raises(<<Get_("dst", DestTeam, "integrations", 0)>>)
          /\ UNCHANGED loc
    /\ UNCHANGED <<teams, flags, src, dst, team_no, item_no, overall_hc_mapping, call>>

-----------------------------------------------------------------------------
(* copy_health_checks *)

HeaderFallback_Overwrites(new_check) ==
    LET raw_ep == Get(new_check, "rawEndpointConfiguration", Empty)
        ep == Get(new_check, "endpointConfiguration", Empty)
    IN IF Truthy(raw_ep)
       THEN Put(new_check, "endpointConfiguration", Put(ep, "headers", Get(raw_ep, "headers", Empty)))
       ELSE new_check

\* lines 138-142: headers of rawEndpointConfiguration when endpointConfiguration has none
HeaderFallback(new_check) ==
    LET raw_ep == Get(new_check, "rawEndpointConfiguration", Empty)
        ep == Get(new_check, "endpointConfiguration", Empty)
    IN IF Truthy(raw_ep) /\ ~Truthy(Get(ep, "headers", Null))
       THEN Put(new_check, "endpointConfiguration", Put(ep, "headers", Get(raw_ep, "headers", Empty)))
       ELSE new_check

CheckSystemFields ==
    <<"teamId", "identifier", "createdBy", "createdAt", "updatedBy", "updatedAt",
      "thirdPartyPresets", "rawEndpointConfiguration">>

Rebuilt_AlwaysType(d_integ) ==
    Dict([type |-> Get(d_integ, "type", Null),
          domain |-> Get(d_integ, "domain", Null),
          name |-> Get(d_integ, "name", Null)])

\* lines 153-164: the reference rebuilt from a destination integration
Rebuilt(d_integ) ==
    IF Upper(Get(d_integ, "type", Str("")).v) = "CUSTOM"
    THEN Dict([observabilityToolType |-> Str("CUSTOM"),
               domain |-> Get(d_integ, "domain", Null),
               name |-> Get(d_integ, "name", Null)])
    ELSE Dict([type |-> Get(d_integ, "type", Null),
               domain |-> Get(d_integ, "domain", Null),
               name |-> Get(d_integ, "name", Null)])

RECURSIVE MatchLoop(_, _, _)
\* lines 151-165: the first destination integration of the name, None when there is none
MatchLoop(dest_integrations, src_name, n) ==
    IF n > Len(dest_integrations) THEN Null
    ELSE IF Get(dest_integrations[n], "name", Null) = src_name
         THEN Rebuilt(dest_integrations[n])
         ELSE MatchLoop(dest_integrations, src_name, n + 1)

ResolveIntegration_KeepsSource(new_check, dest_integrations) ==
    IF Has(new_check, "teamExternalIntegration")
    THEN LET src_name == Get(new_check.v["teamExternalIntegration"], "name", Null)
             matched == IF dest_integrations # <<>> /\ Truthy(src_name)
                        THEN MatchLoop(dest_integrations, src_name, 1)
                        ELSE Null
         IN IF Truthy(matched)
            THEN Put(new_check, "teamExternalIntegration", matched)
            ELSE new_check
    ELSE new_check

\* lines 146-169: the integration reference, rebuilt or dropped
ResolveIntegration(new_check, dest_integrations) ==
    IF Has(new_check, "teamExternalIntegration")
    THEN LET src_name == Get(new_check.v["teamExternalIntegration"], "name", Null)
             matched == IF dest_integrations # <<>> /\ Truthy(src_name)
                        THEN MatchLoop(dest_integrations, src_name, 1)
                        ELSE Null
         IN IF Truthy(matched)
            THEN Put(new_check, "teamExternalIntegration", matched)
            ELSE Pop(new_check, "teamExternalIntegration")
    ELSE new_check

\* lines 136-170: the payload written for a source health check
NewCheck(check, dest_integrations, target_team_id) ==
    Put(ResolveIntegration(PopAll(HeaderFallback(check), CheckSystemFields), dest_integrations),
        "teamId", Str(target_team_id))

\* dict.update, d[key] = val
Update(a, b) == [x \in DOMAIN a \cup DOMAIN b |-> IF x \in DOMAIN b THEN b[x] ELSE a[x]]

ReturnMapping_Replaces(id_mapping) ==
    /\ overall_hc_mapping' = id_mapping
    /\ pc' = "copy_scenarios"
    /\ item_no' = 0

ReturnMapping_Restarts(id_mapping) ==
    /\ overall_hc_mapping' = Update(overall_hc_mapping, id_mapping)
    /\ pc' = "copy_external_integrations"
    /\ item_no' = 0

\* lines 192, 309: copy_health_checks returns and main() merges the mapping
ReturnMapping(id_mapping) ==
    /\ overall_hc_mapping' = Update(overall_hc_mapping, id_mapping)
    /\ pc' = "copy_scenarios"
    /\ item_no' = 0

\* lines 121-133: list the health checks of the source team
copy_health_checks ==
    /\ pc = "copy_health_checks"
    /\ \/ \E status \in Statuses :
            /\ log' = Append(log, Get_("src", teams[team_no], "checks", status))
            /\ faults' = faults + Failed(status)
            /\ IF status # 200 \/ src[teams[team_no]].checks = <<>>
               THEN /\ ReturnMapping(<<>>)
                    /\ UNCHANGED loc
               ELSE /\ loc' = [loc EXCEPT !.checks = src[teams[team_no]].checks, !.id_mapping = <<>>]
                    /\ pc' = "copy_health_check"
                    /\ item_no' = 1
                    /\ UNCHANGED overall_hc_mapping
       \/ /\ Raises(<<Get_("src", teams[team_no], "checks", 0)>>)
          /\ UNCHANGED <<loc, item_no, overall_hc_mapping>>
    /\ UNCHANGED <<teams, flags, src, dst, team_no, call>>

\* the answers to a creation request: created and identified, created without an
\* identifier in the response, refused
PostAnswers == IF faults < MaxFaults THEN {"identifier", "no identifier", "refused"} ELSE {"identifier"}
PutStatuses(answer) == IF faults < MaxFaults /\ answer = "identifier" THEN {200, 500} ELSE {200}

CheckRequests_UpdatesAlways(post, put) == <<post, put>>

\* lines 172-191: the creation request, and the update request when the creation
\* succeeded and its response held an identifier
CheckRequests(post, put) ==
    IF post.status \in {200, 201} /\ post.returned # "" THEN <<post, put>> ELSE <<post>>

Recorded_Always(id_mapping, src_id, post) == Update(id_mapping, src_id.v :> post.returned)

\* lines 174-181: id_mapping[src_id] = dest_id
Recorded(id_mapping, src_id, post) ==
    IF post.status \in {200, 201} /\ post.returned # ""
    THEN Update(id_mapping, src_id.v :> post.returned)
    ELSE id_mapping

\* lines 134-191: one source health check, its creation and its update
copy_health_checks_item ==
    /\ pc = "copy_health_check"
    /\ dst.nhc < Len(Minted)
    /\ LET check == loc.checks[item_no]
           src_id == Get(check, "identifier", Null)
           new_check == NewCheck(check, loc.dest_integrations, DestTeam)
           minted == Minted[dst.nhc + 1]
           created == [dst EXCEPT !.checks = Append(dst.checks, Put(new_check, "identifier", Str(minted))),
                                  !.nhc = dst.nhc + 1]
       IN \/ \E answer \in PostAnswers : \E put_status \in PutStatuses(answer) :
               LET post_status == IF answer = "refused" THEN 500 ELSE 200
                   dest_id == IF answer = "identifier" THEN minted ELSE ""
                   post == [Req("POST", "dst", DestTeam, "checks", "", Empty, new_check,
                                post_status, item_no) EXCEPT !.returned = dest_id]
                   put == Req("PUT", "dst", DestTeam, "checks", dest_id, Empty, new_check, put_status, item_no)
                   id_mapping == Recorded(loc.id_mapping, src_id, post)
               IN /\ log' = log \o CheckRequests(post, put)
                  /\ faults' = faults + (IF answer = "identifier" THEN Failed(put_status) ELSE 1)
                  /\ dst' = IF post_status \in {200, 201} THEN created ELSE dst
                  /\ loc' = [loc EXCEPT !.id_mapping = id_mapping]
                  /\ IF item_no = Len(loc.checks)
                     THEN ReturnMapping(id_mapping)
                     ELSE pc' = pc /\ item_no' = item_no + 1 /\ UNCHANGED overall_hc_mapping
          \/ /\ Raises(<<Req("POST", "dst", DestTeam, "checks", "", Empty, new_check, 0, item_no)>>)
             /\ UNCHANGED <<dst, loc, item_no, overall_hc_mapping>>
          \/ LET post == [Req("POST", "dst", DestTeam, "checks", "", Empty, new_check,
                               200, item_no) EXCEPT !.returned = minted]
                 put == Req("PUT", "dst", DestTeam, "checks", minted, Empty, new_check, 0, item_no)
             IN /\ Raises(CheckRequests(post, put))
                /\ dst' = created
                /\ loc' = [loc EXCEPT !.id_mapping = Recorded(loc.id_mapping, src_id, post)]
                /\ UNCHANGED <<item_no, overall_hc_mapping>>
    /\ UNCHANGED <<teams, flags, src, team_no, call>>

-----------------------------------------------------------------------------
(* copy_scenarios *)

ScenarioSystemFields ==
    <<"teamId", "identifier", "createdBy", "createdAt", "updatedBy", "updatedAt",
      "sharedScenario", "sharedScenarioGuid", "baseScenarioId",
      "created_from_type", "created_from_id", "org_id">>

NewScenario_TopLevelOnly(scenario, target_team_id, hc_mapping) ==
    LET stripped == PopAll(scenario, ScenarioSystemFields)
        ref == Get(stripped, "statusCheckId", Null)
    IN Put(IF InMapping(ref, hc_mapping)
           THEN Put(stripped, "statusCheckId", Str(hc_mapping[ref.v]))
           ELSE Pop(stripped, "statusCheckId"),
           "teamId", Str(target_team_id))

NewScenario_KeepsUnmapped(scenario, target_team_id, hc_mapping) ==
    LET stripped == PopAll(scenario, ScenarioSystemFields)
        ref == Get(stripped, "statusCheckId", Null)
    IN Put(IF InMapping(ref, hc_mapping)
           THEN Put(stripped, "statusCheckId", Str(hc_mapping[ref.v]))
           ELSE stripped,
           "teamId", Str(target_team_id))

\* lines 236-243: the payload written for a source scenario
NewScenario(scenario, target_team_id, hc_mapping) ==
    Put(recursive_update_status_check(PopAll(scenario, ScenarioSystemFields), hc_mapping),
        "teamId", Str(target_team_id))

NextTeam_DeletesAgain ==
    IF team_no < Len(teams)
    THEN /\ team_no' = team_no + 1 /\ item_no' = 0
         /\ pc' = IF flags.hc THEN "delete_health_checks" ELSE AfterDeleteHealthChecks
    ELSE team_no' = team_no /\ pc' = "done" /\ item_no' = 0

\* lines 300, 310-312: main() goes on to the next source team, or finishes
NextTeam ==
    IF team_no < Len(teams)
    THEN team_no' = team_no + 1 /\ pc' = "copy_external_integrations" /\ item_no' = 0
    ELSE team_no' = team_no /\ pc' = "done" /\ item_no' = 0

\* lines 223-233: list the scenarios of the source team
copy_scenarios ==
    /\ pc = "copy_scenarios"
    /\ \/ \E status \in Statuses :
            /\ log' = Append(log, Get_("src", teams[team_no], "scenarios", status))
            /\ faults' = faults + Failed(status)
            /\ IF status # 200 \/ src[teams[team_no]].scenarios = <<>>
               THEN /\ NextTeam
                    /\ UNCHANGED loc
               ELSE /\ loc' = [loc EXCEPT !.scenarios = src[teams[team_no]].scenarios]
                    /\ pc' = "copy_scenario"
                    /\ item_no' = 1
                    /\ UNCHANGED team_no
       \/ /\ Raises(<<Get_("src", teams[team_no], "scenarios", 0)>>)
          /\ UNCHANGED <<loc, item_no, team_no>>
    /\ UNCHANGED <<teams, flags, src, dst, overall_hc_mapping, call>>

\* lines 235-250: one source scenario
copy_scenarios_item ==
    /\ pc = "copy_scenario"
    /\ dst.nsc < Len(MintedGuids)
    /\ LET new_scenario == NewScenario(loc.scenarios[item_no], DestTeam, overall_hc_mapping)
       IN \/ \E status \in Statuses :
               /\ log' = Append(log, Req("POST", "dst", DestTeam, "scenarios", "", Empty,
                                         new_scenario, status, item_no))
               /\ faults' = faults + Failed(status)
               /\ dst' = IF status \in {200, 201}
                         THEN [dst EXCEPT !.scenarios =
                                  Append(dst.scenarios,
                                         Put(new_scenario, "guid", Str(MintedGuids[dst.nsc + 1]))),
                                          !.nsc = dst.nsc + 1]
                         ELSE dst
               /\ IF item_no = Len(loc.scenarios)
                  THEN NextTeam
                  ELSE pc' = pc /\ item_no' = item_no + 1 /\ UNCHANGED team_no
          \/ /\ Raises(<<Req("POST", "dst", DestTeam, "scenarios", "", Empty, new_scenario, 0, item_no)>>)
             /\ UNCHANGED <<dst, item_no, team_no>>
    /\ UNCHANGED <<teams, flags, src, loc, overall_hc_mapping, call>>

-----------------------------------------------------------------------------

Next ==
    \/ Start
    \/ delete_existing_health_checks
    \/ delete_existing_health_checks_item
    \/ delete_existing_scenarios
    \/ delete_existing_scenarios_item
    \/ copy_external_integrations
    \/ copy_external_integrations_item
    \/ copy_external_integrations_return
    \/ copy_health_checks
    \/ copy_health_checks_item
    \/ copy_scenarios
    \/ copy_scenarios_item

Spec == Init /\ [][Next]_vars

-----------------------------------------------------------------------------
(* A single call of the payload construction of copy_health_checks on      *)
(* bounded inputs.                                                         *)

EndpointConfigurations ==
    {Absent, Empty, Dict([url |-> Str("u")]),
     Dict([url |-> Str("u"), headers |-> Empty]),
     Dict([url |-> Str("u"), headers |-> Null]),
     Dict([url |-> Str("u"), headers |-> Dict([A |-> Str("1")])])}

RawEndpointConfigurations ==
    {Absent, Null, Empty, Dict([url |-> Str("u")]),
     Dict([headers |-> Empty]),
     Dict([url |-> Str("u"), headers |-> Dict([X |-> Str("1")])])}

IntegrationReferences ==
    {Absent, Empty, Dict([name |-> Str("Datadog1"), type |-> Str("DATADOG")]),
     Dict([name |-> Str("Custom1")]), Dict([name |-> Str("Missing")])}

DestinationLists ==
    {<<>>,
     <<Dict([name |-> Str("Datadog1"), type |-> Str("DATADOG")])>>,
     <<Dict([name |-> Str("Custom1"), type |-> Str("custom"), domain |-> Str("dom")]),
       Dict([name |-> Str("Datadog1"), type |-> Str("DATADOG")]),
       Dict([name |-> Str("Datadog1"), type |-> Str("DATADOG_EU")])>>}

SourceCheck(ep, raw, ref) ==
    Dict(("identifier" :> Str("hc1")) @@ ("name" :> Str("c1")) @@ ("teamId" :> Str("s1"))
         @@ Opt("endpointConfiguration", ep) @@ Opt("rawEndpointConfiguration", raw)
         @@ Opt("teamExternalIntegration", ref))

InitCheck ==
    /\ MainIdle
    /\ call \in {[fn |-> "copy_health_checks", check |-> SourceCheck(ep, raw, ref),
                  dest_integrations |-> d, ret |-> Null, returned |-> FALSE] :
                    ep \in EndpointConfigurations, raw \in RawEndpointConfigurations,
                    ref \in IntegrationReferences, d \in DestinationLists}

BuildCheck ==
    /\ call.fn = "copy_health_checks" /\ ~call.returned
    /\ call' = [call EXCEPT !.ret = NewCheck(call.check, call.dest_integrations, DestTeam),
                            !.returned = TRUE]
    /\ MainUnchanged

SpecCheck == InitCheck /\ [][BuildCheck]_vars

-----------------------------------------------------------------------------
(* Definitions used to state the properties. *)

Range(f) == {f[x] : x \in DOMAIN f}
Entries(q) == {q[n] : n \in 1..Len(q)}

RECURSIVE ValuesAt(_, _)
\* the values held under the key at any depth of x: a scalar, or each element of a list
ValuesAt(key, x) ==
    IF IsDict(x)
    THEN UNION {IF j = key
                THEN IF IsList(x.v[j]) THEN Entries(x.v[j].v) ELSE {x.v[j]}
                ELSE ValuesAt(key, x.v[j]) : j \in DOMAIN x.v}
    ELSE IF IsList(x)
    THEN UNION {ValuesAt(key, x.v[n]) : n \in 1..Len(x.v)}
    ELSE {}

IsScenarioPost(e) == e.m = "POST" /\ e.res = "scenarios"
IsCheckPost(e) == e.m = "POST" /\ e.res = "checks"
IsCheckPut(e) == e.m = "PUT" /\ e.res = "checks"
IsIntegPost(e) == e.m = "POST" /\ e.res = "integrations"
Succeeded(e) == e.status \in {200, 201}

\* the source item a logged request was issued for
SourceCheckOf(e) == src[teams[e.run]].checks[e.item]
SourceScenarioOf(e) == src[teams[e.run]].scenarios[e.item]

InScenarioStage == pc \in {"copy_scenarios", "copy_scenario"}

-----------------------------------------------------------------------------
(* C1: every value under a statusCheckId key, at any depth, of a scenario  *)
(* posted for the current source team is a value of the run-wide mapping   *)
(* as it stands (the mapping does not change while the team's scenarios    *)
(* are posted), and no posted scenario of the run holds a source           *)
(* health-check identifier under statusCheckId.                            *)

C1_ReferenceIntegrity ==
    \A e \in Entries(log) :
        IsScenarioPost(e) =>
            /\ \A r \in ValuesAt("statusCheckId", e.body) : r.k = "S" /\ r.v \notin SrcIds
            /\ e.run = team_no =>
                 \A r \in ValuesAt("statusCheckId", e.body) : r.v \in Range(overall_hc_mapping)

\* a posted scenario whose nested list lost an unmapped reference and kept a mapped one
C1_Witness ==
    \E e \in Entries(log) :
        /\ IsScenarioPost(e) /\ e.run = team_no
        /\ Has(e.body, "graph")
        /\ ValuesAt("statusCheckId", e.body) # {}
        /\ Cardinality(ValuesAt("statusCheckId", e.body))
              < Cardinality(ValuesAt("statusCheckId", SourceScenarioOf(e)))

-----------------------------------------------------------------------------
(* C2: when the scenarios of the k-th source team are migrated, the        *)
(* run-wide mapping holds every entry produced by the health-check stages  *)
(* of the teams 1..k.                                                      *)

\* the entries source id -> destination id the health-check stage of the r-th team produced
Produced(r) ==
    {<<SourceCheckOf(e).v["identifier"].v, e.id>> : e \in {x \in Entries(log) : IsCheckPut(x) /\ x.run = r}}

\* the original statement: every produced entry is in the mapping
C2_EveryEntryKept ==
    InScenarioStage =>
        \A r \in 1..team_no : \A p \in Produced(r) :
            p[1] \in DOMAIN overall_hc_mapping /\ overall_hc_mapping[p[1]] = p[2]

\* the last stage, up to the current team, that produced an entry for the source id
LastProducer(sid) ==
    CHOOSE r \in 1..team_no :
        /\ \E p \in Produced(r) : p[1] = sid
        /\ \A r2 \in (r + 1)..team_no : \A p \in Produced(r2) : p[1] # sid

\* amended: the mapping holds, for every source id some stage 1..k produced an entry
\* for, the entry the last such stage produced; a scenario's top-level scalar
\* reference to such a source id is posted as that destination id
C2_LatestEntryKept ==
    InScenarioStage =>
        /\ \A r \in 1..team_no : \A p \in Produced(r) :
              /\ p[1] \in DOMAIN overall_hc_mapping
              /\ <<p[1], overall_hc_mapping[p[1]]>> \in Produced(LastProducer(p[1]))
        /\ \A e \in Entries(log) :
              (/\ IsScenarioPost(e) /\ e.run = team_no
               /\ Has(SourceScenarioOf(e), "statusCheckId")
               /\ SourceScenarioOf(e).v["statusCheckId"].k = "S"
               /\ \E r \in 1..team_no : \E p \in Produced(r) :
                     p[1] = SourceScenarioOf(e).v["statusCheckId"].v)
              => LET sid == SourceScenarioOf(e).v["statusCheckId"].v
                 IN /\ Has(e.body, "statusCheckId")
                    /\ <<sid, e.body.v["statusCheckId"].v>> \in Produced(LastProducer(sid))

\* a scenario of the second team posted with the destination id of a check of the first
C2_Witness ==
    /\ Len(teams) = 2 /\ teams[1] # teams[2] /\ team_no = 2
    /\ \E e \in Entries(log) :
        /\ IsScenarioPost(e) /\ e.run = 2
        /\ Has(e.body, "statusCheckId")
        /\ e.body.v["statusCheckId"].k = "S"
        /\ \E p \in Produced(1) :
              p[1] = SourceScenarioOf(e).v["statusCheckId"].v /\ p[2] = e.body.v["statusCheckId"].v

-----------------------------------------------------------------------------
(* C3: no creation request is issued for an integration name that the      *)
(* destination holds at the moment of the request, and no creation gives   *)
(* the destination a second integration of a name.                         *)

NameCount(integs, name) == Cardinality({n \in 1..Len(integs) : Get(integs[n], "name", Null) = name})

C3_NoDuplicateIntegration ==
    [][/\ \A n \in (Len(log) + 1)..Len(log') :
            IsIntegPost(log'[n]) => Get(log'[n].body, "name", Null) \notin DstNames(dst.integs)
       /\ \A name \in DstNames(dst.integs') :
            NameCount(dst.integs', name) > NameCount(dst.integs, name)
                => NameCount(dst.integs, name) = 0]_vars

-----------------------------------------------------------------------------
(* C4: when the same source team is processed twice, the second run issues *)
(* no creation request for an integration whose creation succeeded in the  *)
(* first run.                                                              *)

C4_SecondRunCreatesNothingAgain ==
    \A e1 \in Entries(log) : \A e2 \in Entries(log) :
        (/\ IsIntegPost(e1) /\ Succeeded(e1)
         /\ IsIntegPost(e2) /\ e1.run < e2.run
         /\ teams[e1.run] = teams[e2.run])
        => Get(e1.body, "name", Null) # Get(e2.body, "name", Null)

-----------------------------------------------------------------------------
(* C5: every payload written to the destination carries the destination's  *)
(* teamId, and no teamId of a source team occurs at any depth of it.       *)

IsWrite(e) == e.m \in {"POST", "PUT"}

C5_DestinationTeamIdEverywhere ==
    \A e \in Entries(log) :
        IsWrite(e) =>
            /\ e.who = "dst"
            /\ IF IsIntegPost(e)
               THEN Get(e.params, "teamId", Null) = Str(DestTeam)
               ELSE Get(e.body, "teamId", Null) = Str(DestTeam)
            /\ \A t \in SrcTeams :
                  Str(t) \notin ValuesAt("teamId", e.body) \cup ValuesAt("teamId", e.params)

-----------------------------------------------------------------------------
(* C6: in every health-check payload written for the current source team,  *)
(* teamExternalIntegration is absent or names an integration of the list   *)
(* the integration stage of that team returned; a source reference with no *)
(* match in the list is dropped, and the check is still posted.            *)

\* the number of source health checks of the current team handled so far
ChecksHandled ==
    IF pc = "copy_health_check" THEN item_no - 1
    ELSE IF InScenarioStage \/ pc = "done" THEN Len(loc.checks)
    ELSE 0

Unmatched(check) ==
    /\ Has(check, "teamExternalIntegration")
    /\ Get(check.v["teamExternalIntegration"], "name", Null) \notin DstNames(loc.dest_integrations)

C6_IntegrationReferenceResolves ==
    /\ \A e \in Entries(log) :
        ((IsCheckPost(e) \/ IsCheckPut(e)) /\ e.run = team_no) =>
            /\ Has(e.body, "teamExternalIntegration") =>
                  Get(e.body.v["teamExternalIntegration"], "name", Null)
                      \in DstNames(loc.dest_integrations)
            /\ Unmatched(SourceCheckOf(e)) => ~Has(e.body, "teamExternalIntegration")
    /\ \A j \in 1..ChecksHandled :
        Unmatched(loc.checks[j]) =>
            \E e \in Entries(log) : IsCheckPost(e) /\ e.run = team_no /\ e.item = j

\* a check whose reference had no match was posted without it, after one whose
\* reference was rebuilt
C6_Witness ==
    \E e1 \in Entries(log) : \E e2 \in Entries(log) :
        /\ IsCheckPost(e1) /\ e1.run = team_no /\ Has(e1.body, "teamExternalIntegration")
        /\ IsCheckPost(e2) /\ e2.run = team_no /\ Succeeded(e2)
        /\ Unmatched(SourceCheckOf(e2)) /\ ~Has(e2.body, "teamExternalIntegration")

-----------------------------------------------------------------------------
(* C7: under a statusCheckId key holding a list, the result is the mapped  *)
(* elements' destination ids in the order of the list, and the key is      *)
(* absent when no element is mapped.                                       *)

\* the destination ids of the mapped elements of the list, in order
MappedOf(L, m) ==
    LET kept == SelectSeq(L, LAMBDA x : InMapping(x, m))
    IN [n \in 1..Len(kept) |-> Str(m[kept[n].v])]

RECURSIVE ListRefsOk(_, _, _)
ListRefsOk(in, out, m) ==
    IF IsDict(in)
    THEN /\ IsDict(out)
         /\ \A key \in DOMAIN in.v :
              IF key = "statusCheckId"
              THEN IsList(in.v[key]) =>
                     IF MappedOf(in.v[key].v, m) = <<>>
                     THEN key \notin DOMAIN out.v
                     ELSE key \in DOMAIN out.v /\ out.v[key] = List(MappedOf(in.v[key].v, m))
              ELSE key \in DOMAIN out.v /\ ListRefsOk(in.v[key], out.v[key], m)
    ELSE IF IsList(in)
    THEN /\ IsList(out) /\ Len(out.v) = Len(in.v)
         /\ \A n \in 1..Len(in.v) : ListRefsOk(in.v[n], out.v[n], m)
    ELSE TRUE

C7_ListDropOnMiss ==
    (call.fn = "recursive_update_status_check" /\ call.returned)
        => ListRefsOk(call.obj, call.ret, call.mapping)

\* the list hc1, hc2, hc3 with hc2 unmapped became the ids of hc1 and hc3, in order
C7_Witness ==
    /\ call.fn = "recursive_update_status_check" /\ call.returned
    /\ call.obj = NestedTree(List(<<Str("hc1"), Str("hc2"), Str("hc3")>>), Absent)
    /\ call.mapping = [hc1 |-> "d1", hc3 |-> "d2"]
    /\ call.ret.v["graph"].v["nodes"].v[1].v["statusCheckId"] = List(<<Str("d1"), Str("d2")>>)

-----------------------------------------------------------------------------
(* C8: under a statusCheckId key holding a scalar v, the result is         *)
(* mapping[v] when v is a key of the mapping and the key is absent when it *)
(* is not, at every depth of dicts and lists.                              *)

RECURSIVE ScalarRefsOk(_, _, _)
ScalarRefsOk(in, out, m) ==
    IF IsDict(in)
    THEN /\ IsDict(out)
         /\ \A key \in DOMAIN in.v :
              IF key = "statusCheckId"
              THEN ~IsList(in.v[key]) =>
                     IF in.v[key].k = "S" /\ in.v[key].v \in DOMAIN m
                     THEN key \in DOMAIN out.v /\ out.v[key] = Str(m[in.v[key].v])
                     ELSE key \notin DOMAIN out.v
              ELSE key \in DOMAIN out.v /\ ScalarRefsOk(in.v[key], out.v[key], m)
    ELSE IF IsList(in)
    THEN /\ IsList(out) /\ Len(out.v) = Len(in.v)
         /\ \A n \in 1..Len(in.v) : ScalarRefsOk(in.v[n], out.v[n], m)
    ELSE TRUE

C8_ScalarReplaceOrRemove ==
    (call.fn = "recursive_update_status_check" /\ call.returned)
        => ScalarRefsOk(call.obj, call.ret, call.mapping)

\* a mapped scalar inside a dict of a list was replaced and an unmapped one,
\* inside a list of that list, was removed
C8_Witness ==
    /\ call.fn = "recursive_update_status_check" /\ call.returned
    /\ call.obj = NestedTree(Str("hc1"), Str("hc2"))
    /\ call.mapping = [hc1 |-> "d2"]
    /\ call.ret.v["graph"].v["nodes"].v[1].v["statusCheckId"] = Str("d2")
    /\ call.ret.v["graph"].v["nodes"].v[3].v[1] = Empty

-----------------------------------------------------------------------------
(* C9: one integration Datadog1 of type DATADOG, one health check hc1      *)
(* referencing it, one scenario referencing hc1, a destination without the *)
(* integration, every request succeeding: the destination ends with the    *)
(* integration, one health check whose reference was rebuilt from it, and  *)
(* one scenario whose statusCheckId is the new identifier of that check.   *)

EndToEndRun ==
    /\ pc = "done" /\ teams = <<"s1">> /\ src = W1.src /\ faults = 0

C9_EndToEnd ==
    EndToEndRun =>
        /\ \E n \in 1..Len(dst.integs) :
              /\ Get(dst.integs[n], "name", Null) = Str("Datadog1")
              /\ Get(dst.integs[n], "type", Null) = Str("DATADOG")
        /\ Len(dst.checks) = 1
        /\ Get(dst.checks[1], "teamExternalIntegration", Null)
              = Dict([type |-> Str("DATADOG"), domain |-> Null, name |-> Str("Datadog1")])
        /\ Len(dst.scenarios) = 1
        /\ Has(dst.scenarios[1], "statusCheckId")
        /\ dst.scenarios[1].v["statusCheckId"] = dst.checks[1].v["identifier"]
        /\ dst.scenarios[1].v["statusCheckId"] # Str("hc1")

C9_Witness ==
    /\ EndToEndRun
    /\ Len(dst.scenarios) = 1 /\ Len(dst.checks) = 1
    /\ \E e \in Entries(log) : IsIntegPost(e) /\ Succeeded(e)

-----------------------------------------------------------------------------
(* C10: the payload of a health check takes the headers of                 *)
(* rawEndpointConfiguration when endpointConfiguration has none or empty   *)
(* ones, keeps its own non-empty headers, and never holds                  *)
(* rawEndpointConfiguration.                                               *)

\* check[key]["headers"], Absent when there is none
HeadersOf(check, key) ==
    LET c == Get(check, key, Empty)
    IN IF IsDict(c) THEN Get(c, "headers", Absent) ELSE Absent

C10_HeaderFallback ==
    (call.fn = "copy_health_checks" /\ call.returned) =>
        /\ (/\ HeadersOf(call.check, "endpointConfiguration") \in {Absent, Empty}
            /\ HeadersOf(call.check, "rawEndpointConfiguration") # Absent)
           => HeadersOf(call.ret, "endpointConfiguration")
                  = HeadersOf(call.check, "rawEndpointConfiguration")
        /\ (/\ HeadersOf(call.check, "endpointConfiguration") # Absent
            /\ Truthy(HeadersOf(call.check, "endpointConfiguration")))
           => HeadersOf(call.ret, "endpointConfiguration")
                  = HeadersOf(call.check, "endpointConfiguration")
        /\ ~Has(call.ret, "rawEndpointConfiguration")

\* empty headers were replaced by the headers of rawEndpointConfiguration
C10_Witness ==
    /\ call.fn = "copy_health_checks" /\ call.returned
    /\ HeadersOf(call.check, "endpointConfiguration") = Empty
    /\ HeadersOf(call.check, "rawEndpointConfiguration") = Dict([X |-> Str("1")])
    /\ HeadersOf(call.ret, "endpointConfiguration") = Dict([X |-> Str("1")])
    /\ ~Has(call.ret, "rawEndpointConfiguration")

-----------------------------------------------------------------------------
(* C11: the reference written for a health check of the current team holds *)
(* observabilityToolType CUSTOM and no type when the matched destination   *)
(* integration is of type CUSTOM, and the type of that integration and no  *)
(* observabilityToolType otherwise; a creation request for an integration  *)
(* passes observabilityToolType and no type exactly when the type of the   *)
(* source integration, uppercased and CUSTOM when absent, is CUSTOM, and   *)
(* passes the uppercased type and no observabilityToolType otherwise.      *)

\* the first integration of the name in the list
FirstNamed(integs, name) ==
    integs[CHOOSE n \in 1..Len(integs) :
              /\ Get(integs[n], "name", Null) = name
              /\ \A j \in 1..(n - 1) : Get(integs[j], "name", Null) # name]

SourceIntegOf(e) == src[teams[e.run]].integs[e.item]

IsCustom(integ) ==
    \/ ~Has(integ, "type")
    \/ ~Truthy(integ.v["type"])
    \/ Upper(integ.v["type"].v) = "CUSTOM"

\* the places in the log of the requests a step issues
Issued == (Len(log) + 1)..Len(log')

C11_IntegrationTypeBranching ==
    [][\A n \in Issued :
         LET e == log'[n]
         IN /\ ((IsCheckPost(e) \/ IsCheckPut(e)) /\ Has(e.body, "teamExternalIntegration"))
                => LET ref == e.body.v["teamExternalIntegration"]
                       d_integ == FirstNamed(loc.dest_integrations, Get(ref, "name", Null))
                   IN IF Has(d_integ, "type") /\ Upper(d_integ.v["type"].v) = "CUSTOM"
                      THEN /\ Get(ref, "observabilityToolType", Absent) = Str("CUSTOM")
                           /\ ~Has(ref, "type")
                      ELSE /\ Has(ref, "type")
                           /\ ref.v["type"] = Get(d_integ, "type", Null)
                           /\ ~Has(ref, "observabilityToolType")
            /\ IsIntegPost(e) =>
                  IF IsCustom(SourceIntegOf(e))
                  THEN /\ Get(e.params, "observabilityToolType", Absent) = Str("CUSTOM")
                       /\ ~Has(e.params, "type")
                  ELSE /\ Get(e.params, "type", Absent)
                            = Str(Upper(SourceIntegOf(e).v["type"].v))
                       /\ ~Has(e.params, "observabilityToolType")]_vars

\* an integration of type custom and one without a type were created with
\* observabilityToolType, one of another type with its type, and a check referencing
\* the first was written with the CUSTOM form of the reference
C11_Witness ==
    /\ \E e \in Entries(log) :
          /\ IsIntegPost(e) /\ Succeeded(e)
          /\ Get(SourceIntegOf(e), "type", Absent) = Str("custom")
          /\ Has(e.params, "observabilityToolType")
    /\ \E e \in Entries(log) :
          /\ IsIntegPost(e) /\ ~Has(SourceIntegOf(e), "type")
          /\ Has(e.params, "observabilityToolType")
    /\ \E e \in Entries(log) :
          /\ IsIntegPost(e) /\ Has(e.params, "type")
    /\ \E e \in Entries(log) :
          /\ IsCheckPost(e)
          /\ Has(e.body, "teamExternalIntegration")
          /\ Has(e.body.v["teamExternalIntegration"], "observabilityToolType")

-----------------------------------------------------------------------------
(* C12: a creation request for a health check that succeeded and whose     *)
(* response held the identifier d is followed, as the next request of the  *)
(* run, by an update request against d with the same payload; an update    *)
(* request is only ever issued right after such a creation request, so     *)
(* none is issued for a check whose creation failed or gave no identifier. *)

\* the creation request gave an identifier
Identified(e) == IsCheckPost(e) /\ Succeeded(e) /\ e.returned # ""

\* the update request put follows from the creation request post
UpdateOf(post, put) ==
    /\ Identified(post)
    /\ IsCheckPut(put)
    /\ put.id = post.returned
    /\ put.body = post.body
    /\ put.who = post.who /\ put.team = post.team
    /\ put.run = post.run /\ put.item = post.item

C12_TwoPhaseWrite ==
    [][\A n \in Issued :
         /\ Identified(log'[n]) => n < Len(log') /\ UpdateOf(log'[n], log'[n + 1])
         /\ IsCheckPut(log'[n]) => n > 1 /\ UpdateOf(log'[n - 1], log'[n])]_vars

\* one check was created and updated, and the creation of the next, which was
\* refused or gave no identifier, follows the update with no update of its own
C12_Witness ==
    \E n \in 1..Len(log) :
        /\ n + 2 = Len(log)
        /\ Identified(log[n])
        /\ IsCheckPut(log[n + 1])
        /\ IsCheckPost(log[n + 2]) /\ ~Identified(log[n + 2])
        /\ pc = "copy_scenarios"

-----------------------------------------------------------------------------
(* C13: the mapping copy_health_checks returned for the current team holds *)
(* an entry for a source check exactly when the creation request for that  *)
(* check succeeded and gave an identifier, and the entry is that           *)
(* identifier; it holds nothing else, and the entry stands whatever the    *)
(* status of the update request.                                           *)

\* copy_health_checks has returned for the current team
HealthChecksReturned == InScenarioStage \/ pc = "done"

C13_MappingFollowsCreates ==
    HealthChecksReturned =>
        LET checks == src[teams[team_no]].checks
            sid(j) == checks[j].v["identifier"].v
            creates(j) == {e \in Entries(log) : Identified(e) /\ e.run = team_no /\ e.item = j}
        IN /\ \A j \in 1..Len(checks) :
                /\ sid(j) \in DOMAIN loc.id_mapping <=> creates(j) # {}
                /\ \A e \in creates(j) : loc.id_mapping[sid(j)] = e.returned
           /\ DOMAIN loc.id_mapping \subseteq {sid(j) : j \in 1..Len(checks)}
           /\ \A e \in Entries(log) :
                (IsCheckPut(e) /\ e.run = team_no) =>
                    /\ sid(e.item) \in DOMAIN loc.id_mapping
                    /\ loc.id_mapping[sid(e.item)] = e.id

\* of two checks of the team, the one whose creation was refused or gave no
\* identifier has no entry and the other has one
C13_Witness ==
    /\ HealthChecksReturned
    /\ \E e1 \in Entries(log) : \E e2 \in Entries(log) :
        /\ IsCheckPost(e1) /\ e1.run = team_no /\ ~Identified(e1)
        /\ SourceCheckOf(e1).v["identifier"].v \notin DOMAIN loc.id_mapping
        /\ Identified(e2) /\ e2.run = team_no
        /\ SourceCheckOf(e2).v["identifier"].v \in DOMAIN loc.id_mapping

-----------------------------------------------------------------------------
(* C14: no failure of a request, a status outside 2xx or a network error,  *)
(* ends the run: the run is never aborted, and a request that failed is    *)
(* followed by the remaining items, stages and teams up to the finished    *)
(* state.                                                                  *)

C14_FailuresNeverFatal == pc # "aborted"

-----------------------------------------------------------------------------
(* C15: every request issued against a source team, or with the source     *)
(* credentials, is a GET listing of that team's integrations, health       *)
(* checks or scenarios; every POST, PUT and DELETE is issued with the      *)
(* destination credentials against the destination team, with or without   *)
(* the deletion flags.                                                     *)

C15_SourceReadOnly ==
    [][\A n \in Issued :
         LET e == log'[n]
         IN /\ (e.who = "src" \/ e.team \in SrcTeams) =>
                  /\ e.m = "GET" /\ e.id = ""
                  /\ e.who = "src" /\ e.run \in 1..Len(teams) /\ e.team = teams[e.run]
                  /\ e.res \in {"integrations", "checks", "scenarios"}
            /\ e.m \in {"POST", "PUT", "DELETE"} => e.who = "dst" /\ e.team = DestTeam]_vars

\* a finished run with both deletion flags that deleted, created and updated at the
\* destination and listed the three collections of a source team
C15_Witness ==
    /\ pc = "done" /\ flags.hc /\ flags.sc
    /\ \A m \in {"POST", "PUT", "DELETE"} : \E e \in Entries(log) : e.m = m
    /\ \A res \in {"integrations", "checks", "scenarios"} :
          /\ \E e \in Entries(log) : e.who = "src" /\ e.res = res
          /\ \E e \in Entries(log) : e.m = "POST" /\ e.res = res

-----------------------------------------------------------------------------
(* C16: the requests of the migration are issued team by team in the order *)
(* supplied and, within a team, integration stage, health-check stage,     *)
(* scenario stage; when a request of a stage is issued, every earlier      *)
(* stage of the team and every stage of every earlier team has completed:  *)
(* its listing was issued and each listed item was handled.                *)

\* the place of a collection in the order of the stages
Rank(res) == CASE res = "integrations" -> 1 [] res = "checks" -> 2 [] res = "scenarios" -> 3

\* the stage (r1, st1) is not after the stage (r2, st2)
NotAfter(r1, st1, r2, st2) == r1 < r2 \/ (r1 = r2 /\ st1 <= st2)

\* the requests of the stage of the collection res of the r-th team
StageEntries(r, res) == {n \in 1..Len(log) : log[n].run = r /\ log[n].res = res}

\* the stage has issued every request it has to issue
Completed(r, res) ==
    LET ns == StageEntries(r, res)
        listed == {n \in ns : log[n].m = "GET" /\ log[n].who = "src"}
        items == IF res = "checks" THEN src[teams[r]].checks ELSE src[teams[r]].scenarios
    IN /\ listed # {}
       /\ IF res = "integrations"
          THEN \* both listings of the destination, the second one after every creation
               /\ Cardinality({n \in ns : log[n].m = "GET" /\ log[n].who = "dst"}) = 2
               /\ \E last \in ns :
                     /\ log[last].m = "GET" /\ log[last].who = "dst"
                     /\ \A n \in ns : n <= last
          ELSE \A n \in listed :
                  Succeeded(log[n]) =>
                      \A j \in 1..Len(items) :
                          \E p \in ns : log[p].m = "POST" /\ log[p].item = j

C16_StageAndTeamOrder ==
    [][\A n \in Issued :
         LET e == log'[n]
         IN e.run >= 1 =>
              /\ e.run <= Len(teams)
              /\ e.who = "src" => e.team = teams[e.run]
              \* no request of a later stage or of a later team was issued before
              /\ \A p \in 1..(n - 1) :
                    log'[p].run >= 1 =>
                        NotAfter(log'[p].run, Rank(log'[p].res), e.run, Rank(e.res))
              \* every earlier stage had completed before the step
              /\ \A r \in 1..e.run : \A res \in {"integrations", "checks", "scenarios"} :
                    (r < e.run \/ Rank(res) < Rank(e.res)) => Completed(r, res)]_vars

\* the second of two different teams has reached its scenario stage after the
\* first team's three stages wrote to the destination
C16_Witness ==
    /\ Len(teams) = 2 /\ teams[1] # teams[2]
    /\ \E n \in 1..Len(log) : log[n].run = 2 /\ log[n].res = "scenarios" /\ log[n].m = "POST"
    /\ \A res \in {"integrations", "checks", "scenarios"} :
          /\ \E n \in 1..Len(log) : log[n].run = 1 /\ log[n].res = res /\ log[n].m = "POST"
          /\ \E n \in 1..Len(log) : log[n].run = 2 /\ log[n].res = res

-----------------------------------------------------------------------------
(* C17: recursive_update_status_check adds no key to any dict, keeps every *)
(* key other than statusCheckId at every depth, with the same scalar or    *)
(* with the container rewritten in the same way, and keeps the length and  *)
(* the order of every list that is not held under statusCheckId.           *)

RECURSIVE FrameOk(_, _)
FrameOk(in, out) ==
    IF IsDict(in)
    THEN /\ IsDict(out)
         /\ DOMAIN out.v \subseteq DOMAIN in.v
         /\ \A key \in DOMAIN in.v \ {"statusCheckId"} :
              key \in DOMAIN out.v /\ FrameOk(in.v[key], out.v[key])
    ELSE IF IsList(in)
    THEN /\ IsList(out) /\ Len(out.v) = Len(in.v)
         /\ \A n \in 1..Len(in.v) : FrameOk(in.v[n], out.v[n])
    ELSE out = in

C17_RewriterFrame ==
    (call.fn = "recursive_update_status_check" /\ call.returned)
        => FrameOk(call.obj, call.ret)

\* with nothing mapped both references are gone and everything else is as it was:
\* the three elements of the list, in order, the last one a list of one empty dict
C17_Witness ==
    /\ call.fn = "recursive_update_status_check" /\ call.returned
    /\ call.obj = NestedTree(List(<<Str("hc1"), Str("hc2")>>), Str("hc3"))
    /\ call.mapping = <<>>
    /\ call.ret = Dict(("name" :> Str("n")) @@
                       ("graph" :> Dict("nodes" :> List(<<
                            Dict("type" :> Str("x")), Str("leaf"), List(<<Empty>>)>>))))

-----------------------------------------------------------------------------
(* C18: at the end of a run all of whose listing requests succeeded, each  *)
(* health check of each source team processed has exactly one creation     *)
(* request and at most one update request, each scenario exactly one       *)
(* creation request, each integration at most one creation request,        *)
(* whatever became of the individual requests.                             *)

\* the requests of the method for the item-th entry of the collection of the r-th team
RequestsFor(m, res, r, item) ==
    {n \in 1..Len(log) :
        log[n].m = m /\ log[n].res = res /\ log[n].run = r /\ log[n].item = item}

RunEnded == pc \in {"done", "aborted"}
EveryListingSucceeded == \A e \in Entries(log) : e.m = "GET" => e.status = 200

\* no item has more requests than it may have
AtMostOnce ==
    \A r \in 1..Len(teams) : \A item \in 1..MaxListLen : \A res \in {"integrations", "checks", "scenarios"} :
        /\ Cardinality(RequestsFor("POST", res, r, item)) <= 1
        /\ Cardinality(RequestsFor("PUT", res, r, item)) <= (IF res = "checks" THEN 1 ELSE 0)

C18_WrittenOnce ==
    (RunEnded /\ EveryListingSucceeded) =>
        /\ AtMostOnce
        /\ \A r \in 1..Len(teams) :
              /\ \A j \in 1..Len(src[teams[r]].checks) :
                    Cardinality(RequestsFor("POST", "checks", r, j)) = 1
              /\ \A j \in 1..Len(src[teams[r]].scenarios) :
                    Cardinality(RequestsFor("POST", "scenarios", r, j)) = 1

-----------------------------------------------------------------------------
(* C19: no DELETE request is issued after a creation request of the run;   *)
(* a DELETE is issued only under its flag; the destination's health checks *)
(* and its scenarios are each listed for deletion at most once in a run,   *)
(* the health checks first; and no identifier the destination gave to an   *)
(* entity created in the run is deleted.                                   *)

\* a request of the deletion pass: a listing of the destination's health checks or
\* scenarios, or a DELETE
IsDeletionPass(e) ==
    \/ e.m = "DELETE"
    \/ e.m = "GET" /\ e.who = "dst" /\ e.res \in {"checks", "scenarios"}

C19_DeleteBeforeCreate ==
    [][\A n \in Issued :
         LET e == log'[n]
         IN IsDeletionPass(e) =>
              /\ IF e.res = "checks" THEN flags.hc ELSE flags.sc
              /\ e.m = "DELETE" => e.id \notin Range(Minted) \cup Range(MintedGuids)
              /\ \A p \in 1..(n - 1) :
                    \* nothing but the deletion pass was issued before
                    /\ IsDeletionPass(log'[p])
                    \* health checks before scenarios
                    /\ log'[p].res = "scenarios" => e.res = "scenarios"
                    \* each collection listed once, each identifier deleted once
                    /\ (log'[p].m = e.m /\ log'[p].res = e.res) =>
                          e.m = "DELETE" /\ log'[p].id # e.id]_vars

\* a finished run over two teams with both flags: a health check and then a scenario
\* of the destination were deleted, then both teams' entities were created
C19_Witness ==
    /\ pc = "done" /\ Len(teams) = 2 /\ flags.hc /\ flags.sc
    /\ \E n \in 1..Len(log) : \E p \in 1..Len(log) :
          /\ n < p
          /\ log[n].m = "DELETE" /\ log[n].res = "checks"
          /\ log[p].m = "DELETE" /\ log[p].res = "scenarios"
    /\ \A r \in 1..2 : \E e \in Entries(log) : e.run = r /\ IsCheckPost(e) /\ Succeeded(e)
    /\ \A r \in 1..2 : \E e \in Entries(log) : e.run = r /\ IsScenarioPost(e) /\ Succeeded(e)

-----------------------------------------------------------------------------
(* C20: every reference of a scenario posted for the i-th team is a        *)
(* destination identifier produced by the health-check stage of one of the *)
(* teams 1..i, never of a later team; a top-level reference to a health    *)
(* check that no team 1..i has is dropped; and while the scenarios of the  *)
(* i-th team are migrated every entry of the run-wide mapping was produced *)
(* by a stage 1..i.                                                        *)

\* the identifiers of the health checks of the teams 1..r
OwnedUpTo(r) ==
    UNION {{src[teams[n]].checks[j].v["identifier"].v : j \in 1..Len(src[teams[n]].checks)} :
              n \in 1..r}

C20_OneDirectionalResolution ==
    [][\A n \in Issued :
         IsScenarioPost(log'[n]) =>
            LET e == log'[n]
                ref == Get(SourceScenarioOf(e), "statusCheckId", Absent)
            IN \* the mapping at the time of the request: entries of the stages 1..i only
               /\ \A sid \in DOMAIN overall_hc_mapping :
                     \E r \in 1..e.run : <<sid, overall_hc_mapping[sid]>> \in Produced(r)
               /\ \A r \in (e.run + 1)..Len(teams) : Produced(r) = {}
               \* the references posted are values of that mapping
               /\ \A v \in ValuesAt("statusCheckId", e.body) :
                     v.k = "S" /\ v.v \in Range(overall_hc_mapping)
               \* a reference to a health check no team 1..i has is dropped
               /\ (ref.k = "S" /\ ref.v \notin OwnedUpTo(e.run))
                     => ~Has(e.body, "statusCheckId")
               /\ (IsList(ref) /\ Has(e.body, "statusCheckId"))
                     => Len(e.body.v["statusCheckId"].v)
                           <= Cardinality({j \in 1..Len(ref.v) : ref.v[j].v \in OwnedUpTo(e.run)})]_vars

\* a scenario of the first team referencing a health check that only the second team
\* has was posted without the reference, and the second team's stage then produced
\* an entry for that health check
C20_Witness ==
    /\ Len(teams) = 2 /\ team_no = 2
    /\ \E e \in Entries(log) :
        /\ IsScenarioPost(e) /\ e.run = 1 /\ Succeeded(e)
        /\ Has(SourceScenarioOf(e), "statusCheckId")
        /\ SourceScenarioOf(e).v["statusCheckId"].k = "S"
        /\ SourceScenarioOf(e).v["statusCheckId"].v \notin OwnedUpTo(1)
        /\ ~Has(e.body, "statusCheckId")
        /\ \E p \in Produced(2) : p[1] = SourceScenarioOf(e).v["statusCheckId"].v

====
